---------------------------- MODULE Spec2Model ----------------------------
(***************************************************************************)
(* Model of src/main.py, "App A: Request Chain Tracer": the two handlers   *)
(* that call the internal service (App B),                                 *)
(*   call_b               GET /call-b              (lines 34-104)          *)
(*   test_load_balancing  GET /test-load-balancing (lines 107-159)         *)
(* The handlers share no mutable state (APP_B_URL is read once, line 21),  *)
(* so each one is checked in a specification of its own: Spec / FairSpec   *)
(* for test_load_balancing, CallBSpec for call_b.                          *)
(***************************************************************************)
EXTENDS Integers, Sequences, FiniteSets, TLC

\* ------------------------------------------------------------------ bounds

\* The internal service answers the probe's calls periodically; MaxPeriod is
\* the longest period explored (1: the same answer every time, 2: alternating).
MaxPeriod == 2

\* call_b's fib query parameter is drawn from -MaxFib..MaxFib (or not supplied).
MaxFib == 2

\* --------------------------------------------------------- program constants

\* for i in range(20)
NumCalls == 20

\* "app_b_instances_expected": 2
ExpectedInstances == 2

\* ------------------------------------------------------------ Python values

\* A Python value, tagged with its type.
None == [t |-> "NoneType", v |-> ""]
Str(s) == [t |-> "str", v |-> s]
ListOf(s) == [t |-> "list", v |-> s]

\* The "error" key is absent from the record of a successful attempt.
Absent == [t |-> "absent", v |-> ""]

\* dict keys must be hashable; a list is not.
Hashable(x) == x.t # "list"

\* No exception pending.
NoExc == [cls |-> "", msg |-> ""]

\* ------------------------------------------------------- the internal service

\* Bodies App B (or whatever answers at APP_B_URL) may send back.
BodyPod1 == "{\"client_ip\": \"pod-1\"}"
BodyPod2 == "{\"client_ip\": \"pod-2\"}"
BodyUnknown == "{\"client_ip\": \"unknown\"}"
BodyNull == "{\"client_ip\": null}"
BodyList == "{\"client_ip\": [\"pod-1\"]}"
BodyMissing == "{\"hostname\": \"b\"}"
BodyArray == "[]"
BodyHtml == "<html>502 Bad Gateway</html>"

Bodies ==
    {BodyPod1, BodyPod2, BodyUnknown, BodyNull, BodyList, BodyMissing,
     BodyArray, BodyHtml}

\* What one internal call does: a response with a body, or a transport failure.
Outcomes ==
    [kind : {"response"}, text : Bodies]
        \cup [kind : {"timeout", "connect"}, text : {""}]

\* The answers of the internal service to the probe's calls, as a period.
Patterns == UNION {[1..n -> Outcomes] : n \in 1..MaxPeriod}

\* The exception client.get raises on a transport failure, with its str().
TransportError(kind) ==
    IF kind = "timeout"
    THEN [cls |-> "ReadTimeout", msg |-> ""]
    ELSE [cls |-> "ConnectError", msg |-> "All connection attempts failed"]

\* response.json(): the parsed body, or the decoder's exception.
ResponseJson(text) ==
    CASE text = BodyPod1 ->
           [ok |-> TRUE, t |-> "dict", has |-> TRUE, client_ip |-> Str("pod-1")]
      [] text = BodyPod2 ->
           [ok |-> TRUE, t |-> "dict", has |-> TRUE, client_ip |-> Str("pod-2")]
      [] text = BodyUnknown ->
           [ok |-> TRUE, t |-> "dict", has |-> TRUE, client_ip |-> Str("unknown")]
      [] text = BodyNull ->
           [ok |-> TRUE, t |-> "dict", has |-> TRUE, client_ip |-> None]
      [] text = BodyList ->
           [ok |-> TRUE, t |-> "dict", has |-> TRUE, client_ip |-> ListOf("pod-1")]
      [] text = BodyMissing ->
           [ok |-> TRUE, t |-> "dict", has |-> FALSE, client_ip |-> None]
      [] text = BodyArray ->
           [ok |-> TRUE, t |-> "list", has |-> FALSE, client_ip |-> None]
      [] OTHER ->
           [ok |-> FALSE, t |-> "", has |-> FALSE, client_ip |-> None]

JSONDecodeError ==
    [cls |-> "JSONDecodeError", msg |-> "Expecting value: line 1 column 1 (char 0)"]
AttributeError ==
    [cls |-> "AttributeError", msg |-> "'list' object has no attribute 'get'"]
TypeError ==
    [cls |-> "TypeError", msg |-> "unhashable type: 'list'"]

\* ------------------------------------------------------------------- state

VARIABLES
    pattern,        \* the internal service's answers to the probe (environment)
    pc,             \* test_load_balancing: position in the handler
    i,              \* test_load_balancing: the loop variable
    results,        \* test_load_balancing: results
    ip_counts,      \* test_load_balancing: ip_counts
    response,       \* test_load_balancing: body of the response being handled
    exc,            \* test_load_balancing: the exception being propagated
    clients,        \* test_load_balancing: every AsyncClient created, in order
    issued,         \* test_load_balancing: call numbers of the GETs issued
    returned,       \* test_load_balancing: the value returned, once returned
    cb_pc,          \* call_b: position in the handler
    fib,            \* call_b: the fib query parameter
    cb_client,      \* call_b: every AsyncClient created
    cb_sent,        \* call_b: params of every GET issued
    cb_response,    \* call_b: body of the response being handled
    cb_exc,         \* call_b: the exception raised by the internal call
    app_b_response, \* call_b: app_b_response
    call_success,   \* call_b: call_success
    error_message,  \* call_b: error_message
    cb_returned,    \* call_b: the value returned, once returned
    cb_status       \* call_b: HTTP status of the reply (0: none yet)

probeVars ==
    <<pattern, pc, i, results, ip_counts, response, exc, clients, issued, returned>>

callBVars ==
    <<cb_pc, fib, cb_client, cb_sent, cb_response, cb_exc, app_b_response,
      call_success, error_message, cb_returned, cb_status>>

vars == <<probeVars, callBVars>>


\* ------------------------------------------------------ helpers of both handlers

\* httpx.AsyncClient(): a fresh client, open, that has issued no call yet.
NewClient == [open |-> TRUE, calls |-> 0]

\* client.get(...): one more call on the client.
UseClient(c) == [c EXCEPT !.calls = @ + 1]

AExitLeakOnError(c, raised) == IF raised THEN c ELSE [c EXCEPT !.open = FALSE]

\* Leaving "async with": the client is closed, whether or not the body raised.
AExit(c, raised) == [c EXCEPT !.open = FALSE]

\* The classes of the exceptions the internal call can raise; each one is a
\* subclass of Exception.
ExceptionSubclasses ==
    {"ReadTimeout", "ConnectError", "JSONDecodeError", "AttributeError", "TypeError"}

CaughtTransportOnly(e) == e.cls \in {"ReadTimeout", "ConnectError"}

\* except Exception as e
Caught(e) == e.cls \in ExceptionSubclasses

\* --------------------------------------------------------- test_load_balancing

\* The outcome of the call of loop index k (0-based, like i).
OutcomeAt(k) == pattern[(k % Len(pattern)) + 1]

\* ip_counts = {}
EmptyDict == [x \in {} |-> 0]

\* data.get("client_ip", "unknown")
DictGet(data, default) == IF data.has THEN data.client_ip ELSE default

\* {"call_number": i + 1, "pod_ip": pod_ip, "success": True}
SuccessRecord(n, p) ==
    [call_number |-> n, pod_ip |-> p, success |-> TRUE, error |-> Absent]

\* {"call_number": i + 1, "pod_ip": None, "success": False, "error": str(e)}
FailureRecord(n, e) ==
    [call_number |-> n, pod_ip |-> None, success |-> FALSE, error |-> Str(e.msg)]

\* ip_counts.get(pod_ip, 0)
CountsGet(d, k, default) == IF k \in DOMAIN d THEN d[k] ELSE default

CountIpNoAccumulate(d, k) ==
    [x \in DOMAIN d \cup {k} |-> IF x = k THEN 1 ELSE d[x]]

\* ip_counts[pod_ip] = ip_counts.get(pod_ip, 0) + 1
CountIp(d, k) ==
    [x \in DOMAIN d \cup {k} |-> IF x = k THEN CountsGet(d, k, 0) + 1 ELSE d[x]]

BreakAfterFailure(k) == NumCalls

\* The for loop goes on with the next i after the except clause.
ContinueAfterFailure(k) == k + 1

LoadBalancedAtLeastOne(unique_ips) == unique_ips >= 1

\* load_balanced = unique_ips > 1
LoadBalanced(unique_ips) == unique_ips > 1

\* The dict the handler returns.
ProbeResponse(counts, res) ==
    LET unique_ips == Cardinality(DOMAIN counts)
        load_balanced == LoadBalanced(unique_ips)
    IN  [app_b_instances_expected |-> ExpectedInstances,
         unique_pod_ips_seen |-> unique_ips,
         load_balancing_working |-> load_balanced,
         ip_distribution |-> counts,
         detailed_results |-> res,
         conclusion |-> IF load_balanced
                        THEN "Load balancing IS working"
                        ELSE "Load balancing NOT working - all calls went to same pod"]

\* for i in range(20): try: async with httpx.AsyncClient() as client:
EnterAttempt ==
    /\ pc = "loop"
    /\ i < NumCalls
    /\ clients' = Append(clients, NewClient)
    /\ exc' = NoExc
    /\ pc' = "get"
    /\ UNCHANGED <<pattern, i, results, ip_counts, response, issued, returned>>

\* response = await client.get(f"{APP_B_URL}/diagnostic", timeout=10.0)
Get ==
    /\ pc = "get"
    /\ issued' = Append(issued, i + 1)
    /\ clients' = [clients EXCEPT ![Len(clients)] = UseClient(@)]
    /\ LET o == OutcomeAt(i)
       IN  IF o.kind = "response"
           THEN /\ response' = o.text
                /\ pc' = "body"
                /\ exc' = exc
           ELSE /\ exc' = TransportError(o.kind)
                /\ pc' = "aexit"
                /\ response' = response
    /\ UNCHANGED <<pattern, i, results, ip_counts, returned>>

\* data = response.json(); pod_ip = data.get(...); results.append(...);
\* ip_counts[pod_ip] = ...: the statements run in order until one raises.
Body ==
    /\ pc = "body"
    /\ LET data == ResponseJson(response)
           pod_ip == DictGet(data, Str("unknown"))
       IN  IF ~data.ok
           THEN /\ exc' = JSONDecodeError
                /\ UNCHANGED <<results, ip_counts>>
           ELSE IF data.t # "dict"
           THEN /\ exc' = AttributeError
                /\ UNCHANGED <<results, ip_counts>>
           ELSE /\ results' = Append(results, SuccessRecord(i + 1, pod_ip))
                /\ IF Hashable(pod_ip)
                   THEN /\ ip_counts' = CountIp(ip_counts, pod_ip)
                        /\ exc' = exc
                   ELSE /\ exc' = TypeError
                        /\ ip_counts' = ip_counts
    /\ pc' = "aexit"
    /\ UNCHANGED <<pattern, i, response, clients, issued, returned>>

\* The end of the "async with" block, reached normally or by an exception.
ExitClient ==
    /\ pc = "aexit"
    /\ clients' = [clients EXCEPT ![Len(clients)] = AExit(@, exc # NoExc)]
    /\ IF exc = NoExc
       THEN /\ i' = i + 1
            /\ pc' = "loop"
       ELSE /\ i' = i
            /\ pc' = "except"
    /\ UNCHANGED <<pattern, results, ip_counts, response, exc, issued, returned>>

\* except Exception as e: results.append({... "success": False ...})
Except ==
    /\ pc = "except"
    /\ IF Caught(exc)
       THEN /\ results' = Append(results, FailureRecord(i + 1, exc))
            /\ i' = ContinueAfterFailure(i)
            /\ pc' = "loop"
       ELSE /\ pc' = "raised"
            /\ UNCHANGED <<results, i>>
    /\ UNCHANGED <<pattern, ip_counts, response, exc, clients, issued, returned>>

\* "Analyze results" and return.
Analyze ==
    /\ pc = "loop"
    /\ i >= NumCalls
    /\ returned' = <<ProbeResponse(ip_counts, results)>>
    /\ pc' = "done"
    /\ UNCHANGED <<pattern, i, results, ip_counts, response, exc, clients, issued>>

ProbeInit ==
    /\ pc = "loop"
    /\ i = 0
    /\ results = <<>>
    /\ ip_counts = EmptyDict
    /\ response = ""
    /\ exc = NoExc
    /\ clients = <<>>
    /\ issued = <<>>
    /\ returned = <<>>

\* --------------------------------------------------------------------- call_b

\* fib: int = None, an optional integer.
FibNone == [given |-> FALSE, n |-> 0]
FibInt(k) == [given |-> TRUE, n |-> k]
FibValues == {FibNone} \cup {FibInt(k) : k \in -MaxFib..MaxFib}

\* Python values of call_b's locals.
PyTrue == [t |-> "bool", v |-> "True"]
PyFalse == [t |-> "bool", v |-> "False"]
Unbound == [t |-> "unbound", v |-> ""]

\* The value response.json() returns for a JSON body: the body, decoded.
Decoded(text) == [t |-> ResponseJson(text).t, v |-> text]

CallBParamsIfTruthy(f) == IF f.given /\ f.n # 0 THEN {<<"fib", f.n>>} ELSE {}

\* params = {"fib": fib} if fib is not None else {}
CallBParams(f) == IF f.given THEN {<<"fib", f.n>>} ELSE {}

\* The dict the handler returns.
CallBResponse(f, data, success, err) ==
    [fib_param |-> f,
     app_a_delay_seconds |-> 0,
     internal_call_to_app_b |->
         [fib_passed_to_b |-> f, call_success |-> success, error |-> err],
     app_b_response |-> [data |-> data]]

\* The request arrives with its query parameter; "async with" opens the client.
CallBStart ==
    /\ cb_pc = "start"
    /\ \E f \in FibValues : fib' = f
    /\ cb_client' = Append(cb_client, NewClient)
    /\ cb_pc' = "get"
    /\ UNCHANGED <<cb_sent, cb_response, cb_exc, app_b_response, call_success,
                   error_message, cb_returned, cb_status>>

\* response = await client.get(url, params=params, timeout=60.0)
CallBGet ==
    /\ cb_pc = "get"
    /\ cb_sent' = Append(cb_sent, CallBParams(fib))
    /\ cb_client' = [cb_client EXCEPT ![Len(cb_client)] = UseClient(@)]
    /\ \E o \in Outcomes :
          IF o.kind = "response"
          THEN /\ cb_response' = o.text
               /\ cb_pc' = "json"
               /\ cb_exc' = cb_exc
          ELSE /\ cb_exc' = TransportError(o.kind)
               /\ cb_pc' = "aexit"
               /\ cb_response' = cb_response
    /\ UNCHANGED <<fib, app_b_response, call_success, error_message,
                   cb_returned, cb_status>>

\* app_b_response = response.json(); call_success = True; error_message = None
CallBJson ==
    /\ cb_pc = "json"
    /\ IF ResponseJson(cb_response).ok
       THEN /\ app_b_response' = Decoded(cb_response)
            /\ call_success' = PyTrue
            /\ error_message' = None
            /\ cb_exc' = cb_exc
       ELSE /\ cb_exc' = JSONDecodeError
            /\ UNCHANGED <<app_b_response, call_success, error_message>>
    /\ cb_pc' = "aexit"
    /\ UNCHANGED <<fib, cb_client, cb_sent, cb_response, cb_returned, cb_status>>

\* The end of the "async with" block, reached normally or by an exception.
CallBExitClient ==
    /\ cb_pc = "aexit"
    /\ cb_client' = [cb_client EXCEPT ![Len(cb_client)] = AExit(@, cb_exc # NoExc)]
    /\ cb_pc' = IF cb_exc = NoExc THEN "return" ELSE "except"
    /\ UNCHANGED <<fib, cb_sent, cb_response, cb_exc, app_b_response,
                   call_success, error_message, cb_returned, cb_status>>

\* except Exception as e: app_b_response = None; call_success = False;
\* error_message = str(e).  An exception the clause does not catch leaves the
\* handler, and the framework replies 500.
CallBExcept ==
    /\ cb_pc = "except"
    /\ IF Caught(cb_exc)
       THEN /\ app_b_response' = None
            /\ call_success' = PyFalse
            /\ error_message' = Str(cb_exc.msg)
            /\ cb_pc' = "return"
            /\ cb_status' = cb_status
       ELSE /\ cb_status' = 500
            /\ cb_pc' = "done"
            /\ UNCHANGED <<app_b_response, call_success, error_message>>
    /\ UNCHANGED <<fib, cb_client, cb_sent, cb_response, cb_exc, cb_returned>>

\* return {...}: the reply is sent with status 200.
CallBReturn ==
    /\ cb_pc = "return"
    /\ cb_returned' =
           <<CallBResponse(fib, app_b_response, call_success, error_message)>>
    /\ cb_status' = 200
    /\ cb_pc' = "done"
    /\ UNCHANGED <<fib, cb_client, cb_sent, cb_response, cb_exc, app_b_response,
                   call_success, error_message>>

CallBInitState ==
    /\ cb_pc = "start"
    /\ fib = FibNone
    /\ cb_client = <<>>
    /\ cb_sent = <<>>
    /\ cb_response = ""
    /\ cb_exc = NoExc
    /\ app_b_response = Unbound
    /\ call_success = Unbound
    /\ error_message = Unbound
    /\ cb_returned = <<>>
    /\ cb_status = 0

\* ------------------------------------------------------------- specifications

\* One run of /test-load-balancing against an internal service that answers
\* with any pattern of Patterns.
Init ==
    /\ pattern \in Patterns
    /\ ProbeInit
    /\ CallBInitState

Next ==
    \/ (EnterAttempt /\ UNCHANGED callBVars)
    \/ (Get /\ UNCHANGED callBVars)
    \/ (Body /\ UNCHANGED callBVars)
    \/ (ExitClient /\ UNCHANGED callBVars)
    \/ (Except /\ UNCHANGED callBVars)
    \/ (Analyze /\ UNCHANGED callBVars)

Spec == Init /\ [][Next]_vars

\* The handler is a coroutine the event loop keeps running: every call returns
\* a response or raises (timeout=10.0), so a step that can be taken is taken.
FairSpec == Spec /\ WF_vars(Next)

\* One request to /call-b; the internal service answers it in any way.
CallBInit ==
    /\ pattern = <<[kind |-> "timeout", text |-> ""]>>
    /\ ProbeInit
    /\ CallBInitState

CallBNext ==
    \/ (CallBStart /\ UNCHANGED probeVars)
    \/ (CallBGet /\ UNCHANGED probeVars)
    \/ (CallBJson /\ UNCHANGED probeVars)
    \/ (CallBExitClient /\ UNCHANGED probeVars)
    \/ (CallBExcept /\ UNCHANGED probeVars)
    \/ (CallBReturn /\ UNCHANGED probeVars)

CallBSpec == CallBInit /\ [][CallBNext]_vars

\* ------------------------------------------- what the claims speak about

\* The value returned by the probe (meaningful once pc = "done").
Reply == returned[1]

\* The value returned by call_b (meaningful once cb_status = 200).
CallBReply == cb_returned[1]

Attempts == 1..NumCalls

\* The body attempt k (1-based, like call_number) receives, decoded.
DataOf(k) == ResponseJson(OutcomeAt(k - 1).text)

\* Attempt k succeeds: its call returns a response whose body is a JSON object.
Succeeds(k) ==
    /\ OutcomeAt(k - 1).kind = "response"
    /\ DataOf(k).ok
    /\ DataOf(k).t = "dict"

\* The response of attempt k carries identifier x in its client_ip field.
Carries(k, x) == Succeeds(k) /\ DataOf(k).has /\ DataOf(k).client_ip = x

\* The response of attempt k is a JSON object without a client_ip field.
LacksField(k) == Succeeds(k) /\ ~DataOf(k).has

RECURSIVE SumOver(_, _)
SumOver(d, S) ==
    IF S = {}
    THEN 0
    ELSE LET x == CHOOSE y \in S : TRUE
         IN  d[x] + SumOver(d, S \ {x})

\* sum(d.values())
SumValues(d) == SumOver(d, DOMAIN d)

\* The records of res with success = True.
SuccessRecords(res) == {k \in 1..Len(res) : res[k].success}

\* String identifiers the claims are checked for ("pod-3" is never sent).
StringIds == {Str("pod-1"), Str("pod-2"), Str("pod-3"), Str("unknown")}

Pod1Response == [kind |-> "response", text |-> BodyPod1]
Pod2Response == [kind |-> "response", text |-> BodyPod2]

\* The two scenarios of C5: always "pod-1"; "pod-1" and "pod-2" in turn.
ScenariosHold ==
    /\ (\A k \in Attempts : OutcomeAt(k - 1) = Pod1Response)
          => /\ Reply.ip_distribution = (Str("pod-1") :> NumCalls)
             /\ Reply.unique_pod_ips_seen = 1
             /\ ~Reply.load_balancing_working
    /\ (\A k \in Attempts :
            OutcomeAt(k - 1) = IF k % 2 = 1 THEN Pod1Response ELSE Pod2Response)
          => /\ Reply.ip_distribution = (Str("pod-1") :> 10 @@ Str("pod-2") :> 10)
             /\ Reply.load_balancing_working

\* -------------------------------------------------------------------- claims

\* C1: every run of /test-load-balancing returns a detailed_results list of
\* exactly 20 entries, whatever each of the 20 internal calls does.
C1_TwentyResults ==
    pc = "done" => Len(Reply.detailed_results) = NumCalls

\* C2: after every attempt, and in the response, the sum of the values of
\* ip_distribution equals the number of records with success = true.
C2_SumEqualsSuccesses ==
    /\ pc = "loop" => SumValues(ip_counts) = Cardinality(SuccessRecords(results))
    /\ pc = "done" =>
          SumValues(Reply.ip_distribution)
              = Cardinality(SuccessRecords(Reply.detailed_results))

\* C3: unique_pod_ips_seen equals the number of distinct non-null identifiers
\* that are keys of ip_distribution, for every response body.
C3_UniqueCountsNonNull ==
    pc = "done" =>
        Reply.unique_pod_ips_seen
            = Cardinality({x \in DOMAIN Reply.ip_distribution : x # None})

\* C4: load_balancing_working is true exactly when unique_pod_ips_seen > 1,
\* whatever the expected replica count; a run whose 20 attempts all fail
\* yields false.
C4_VerdictFromObserved ==
    pc = "done" =>
        /\ Reply.load_balancing_working <=> (Reply.unique_pod_ips_seen > 1)
        /\ (\A k \in Attempts : ~Succeeds(k)) => ~Reply.load_balancing_working

C4_Witness ==
    /\ pc = "done"
    /\ Reply.load_balancing_working
    /\ Reply.unique_pod_ips_seen = 2
    /\ Reply.app_b_instances_expected = ExpectedInstances

C6_FailureIsData ==
    (cb_pc = "done" /\ cb_exc # NoExc) =>
        /\ cb_status = 200
        /\ Len(cb_returned) = 1
        /\ CallBReply.internal_call_to_app_b.call_success = PyFalse
        /\ CallBReply.internal_call_to_app_b.error.t = "str"
        /\ CallBReply.app_b_response.data = None

C6_Witness ==
    /\ cb_pc = "done"
    /\ cb_exc = JSONDecodeError
    /\ cb_status = 200
    /\ CallBReply.internal_call_to_app_b.error = Str(JSONDecodeError.msg)

\* C7: the single internal call of /call-b carries fib = K exactly when fib = K
\* was supplied (0 and negative K included) and no fib parameter otherwise,
\* and the response echoes fib in fib_param and fib_passed_to_b, whether the
\* call succeeds or fails.
C7_FibForwarded ==
    /\ Len(cb_sent) <= 1
    /\ cb_pc \in {"json", "aexit", "except", "return", "done"} =>
          /\ Len(cb_sent) = 1
          /\ fib.given => cb_sent[1] = {<<"fib", fib.n>>}
          /\ ~fib.given => cb_sent[1] = {}
    /\ cb_pc = "done" =>
          /\ Len(cb_returned) = 1
          /\ CallBReply.fib_param = fib
          /\ CallBReply.internal_call_to_app_b.fib_passed_to_b = fib

C7_Witness ==
    /\ cb_pc = "done"
    /\ fib = FibInt(0)
    /\ cb_sent = <<{<<"fib", 0>>}>>
    /\ cb_exc # NoExc
    /\ CallBReply.fib_param = FibInt(0)

\* C8: the attempts of a run are sequential and connection-isolated: at most
\* one client is open at any time, client k is created for attempt k and
\* issues exactly one call, and it is released, on the success and on the
\* failure path, before the attempt is recorded as failed and before the
\* next attempt starts.
C8_ClientsIsolated ==
    /\ Cardinality({k \in 1..Len(clients) : clients[k].open}) <= 1
    /\ \A k \in 1..Len(clients) :
          /\ clients[k].calls <= 1
          /\ k < Len(clients) => (~clients[k].open /\ clients[k].calls = 1)
    /\ Len(issued) <= Len(clients)
    /\ Len(clients) <= Len(issued) + 1
    /\ \A k \in 1..Len(issued) : issued[k] = k
    /\ pc \in {"loop", "except", "done"} =>
          \A k \in 1..Len(clients) : ~clients[k].open /\ clients[k].calls = 1
    /\ pc = "loop" => Len(clients) = i
    /\ pc = "done" => Len(clients) = NumCalls

C8_Witness ==
    /\ pc = "get"
    /\ Len(clients) = 3
    /\ clients[3].open
    /\ ~clients[1].open
    /\ ~clients[2].open
    /\ ~results[1].success
    /\ results[2].success

\* C9: every run issues exactly 20 internal calls, one per attempt and in
\* order, whatever subset of them fails (no abort, no skip, no retry), and
\* the run eventually returns its response.
C9_RunCompletes ==
    /\ <>(pc = "done")
    /\ [](pc # "raised")
    /\ [](pc = "done" =>
            /\ Len(issued) = NumCalls
            /\ \A k \in Attempts : issued[k] = k)

C9_Witness ==
    /\ pc = "done"
    /\ Len(issued) = NumCalls
    /\ \A k \in Attempts : ~Succeeds(k)
    /\ ~Reply.load_balancing_working

\* C10: detailed_results holds exactly one record per attempt, in attempt
\* order: the record at position k has call_number = k, with success = true
\* and the extracted identifier when attempt k succeeded, and success = false,
\* pod_ip = null and an error string when it failed; failed attempts add no
\* key and no count to ip_distribution.
C10_OneRecordPerAttempt ==
    pc = "done" =>
        /\ Len(Reply.detailed_results) = NumCalls
        /\ \A k \in Attempts :
              LET r == Reply.detailed_results[k]
              IN  /\ r.call_number = k
                  /\ Succeeds(k) =>
                        /\ r.success
                        /\ r.pod_ip = DictGet(DataOf(k), Str("unknown"))
                  /\ ~Succeeds(k) =>
                        /\ ~r.success
                        /\ r.pod_ip = None
                        /\ r.error.t = "str"
        /\ SumValues(Reply.ip_distribution)
              = Cardinality({k \in Attempts : Succeeds(k)})
=============================================================================
